---- MODULE Spec2Model ----
(***************************************************************************)
(* Model of the subword segmentation engine (apply_bpe.py), its inverse    *)
(* case restoration (detokenize.py) and the serving dispatch (bpe_srv.py). *)
(*                                                                         *)
(* A Python string is a sequence of one-character strings, so that         *)
(* slicing, endswith, replace, split and concatenation are computed and    *)
(* not assumed.  A symbol is such a string, a word under segmentation is a *)
(* sequence of symbols, a merge rule is a pair of symbols.                 *)
(***************************************************************************)
EXTENDS Integers, Sequences, FiniteSets, TLC

VARIABLES
    bpe,      \* the BPE engine object: its fields, cache included
    ret,      \* the last call on the engine: operation, argument, result
    ncalls,   \* number of calls made on the engine
    word,     \* encode's merge loop: the current symbol sequence
    loop,     \* encode's merge loop: codes, initial symbol count, iterations, position
    models,   \* bpe_srv: the list of loaded models
    resp      \* bpe_srv: the last request and its response

vars == <<bpe, ret, ncalls, word, loop, models, resp>>

----------------------------------------------------------------------------
(* Bounds of the model *)

MaxWordLen == 2
MaxRules == 2
MaxCalls == 2
MaxSurfLen == 3
MaxLoopWordLen == 3
MaxModels == 2

----------------------------------------------------------------------------
(* Python string primitives *)

EOW == <<"<", "/", "w", ">">>

\* the feature symbol U+FFE8 and OpenNMT's joiner U+FFED, one character each
FeatureSymbol == "U+FFE8"
Joiner == "U+FFED"

AtAt == <<"@", "@">>

Min(a, b) == IF a < b THEN a ELSE b

\* s[i:j] with 0-based, already non-negative bounds
Slice(s, i, j) == SubSeq(s, i + 1, Min(j, Len(s)))

\* s[:-n]
DropLast(s, n) == SubSeq(s, 1, Len(s) - n)

RECURSIVE Concat(_)
Concat(ss) == IF ss = <<>> THEN <<>> ELSE Head(ss) \o Concat(Tail(ss))

StartsAt(s, g, i) == i + Len(g) - 1 <= Len(s) /\ SubSeq(s, i, i + Len(g) - 1) = g

EndsWith(s, suf) == Len(s) >= Len(suf) /\ StartsAt(s, suf, Len(s) - Len(suf) + 1)

StartsWith(s, pre) == StartsAt(s, pre, 1)

\* g in s
Contains(s, g) == \E i \in 1..(Len(s) + 1) : StartsAt(s, g, i)

\* s.find(g, i): 1-based position of the first occurrence at or after i, 0 if none
Find(s, g, i) ==
    IF \E j \in i..(Len(s) + 1) : StartsAt(s, g, j)
    THEN CHOOSE j \in i..(Len(s) + 1) :
            StartsAt(s, g, j) /\ \A k \in i..(j - 1) : ~StartsAt(s, g, k)
    ELSE 0

\* s.split(g), g non-empty
RECURSIVE Split(_, _)
Split(s, g) ==
    LET j == Find(s, g, 1)
    IN IF j = 0 THEN <<s>>
       ELSE <<SubSeq(s, 1, j - 1)>> \o Split(SubSeq(s, j + Len(g), Len(s)), g)

RECURSIVE Join(_, _)
Join(ss, sep) ==
    IF ss = <<>> THEN <<>>
    ELSE IF Len(ss) = 1 THEN ss[1]
    ELSE ss[1] \o sep \o Join(Tail(ss), sep)

\* s.replace(old, new), old non-empty
Replace(s, old, new) == Join(Split(s, old), new)

IsSpace(c) == c = " "

\* s.strip()
RECURSIVE Strip(_)
Strip(s) ==
    IF s = <<>> THEN s
    ELSE IF IsSpace(s[1]) THEN Strip(Tail(s))
    ELSE IF IsSpace(s[Len(s)]) THEN Strip(DropLast(s, 1))
    ELSE s

UpperCase == {"A", "B", "C"}

IsUpper(c) == c \in UpperCase

LowerChar(c) ==
    CASE c = "A" -> "a" [] c = "B" -> "b" [] c = "C" -> "c" [] OTHER -> c

UpperChar(c) ==
    CASE c = "a" -> "A" [] c = "b" -> "B" [] c = "c" -> "C" [] OTHER -> c

Lower(s) == [i \in 1..Len(s) |-> LowerChar(s[i])]
Upper(s) == [i \in 1..Len(s) |-> UpperChar(s[i])]

----------------------------------------------------------------------------
(* Rule table: BPE.__init__ *)

V01 == <<0, 1>>
V02 == <<0, 2>>

\* the lines of the rule file, in file order, each a pair of symbols
in_codes(codes, pair) == \E i \in 1..Len(codes) : codes[i] = pair

\* bpe_codes[pair]: duplicates keep the rank of the first instance
rank(codes, pair) == (CHOOSE i \in 1..Len(codes) :
                        codes[i] = pair /\ \A k \in 1..(i - 1) : codes[k] # pair) - 1

last_line(codes, pair) == CHOOSE i \in 1..Len(codes) :
                            codes[i] = pair /\ \A k \in (i + 1)..Len(codes) : codes[k] # pair

in_reverse(codes, sym) == \E i \in 1..Len(codes) : codes[i][1] \o codes[i][2] = sym

\* bpe_codes_reverse[sym]: the dict of pairs is filled from the last line of
\* the file to the first, the reverse table in that order, and the last
\* write wins
bpe_codes_reverse(codes, sym) ==
    LET cands == {codes[i] : i \in {k \in 1..Len(codes) : codes[k][1] \o codes[k][2] = sym}}
    IN CHOOSE p \in cands :
          \A q \in cands : last_line(codes, p) <= last_line(codes, q)

NoVocab == [supplied |-> FALSE, words |-> {}]

EmptyCache == [w \in {} |-> <<>>]

BPE(version, codes, separator, vocab, glossaries, case_feature) ==
    [version |-> version, codes |-> codes, separator |-> separator,
     vocab |-> vocab, glossaries |-> glossaries,
     case_feature |-> case_feature, cache |-> EmptyCache]

----------------------------------------------------------------------------
(* encode: the greedy merge loop *)

get_pairs(w) == {<<w[i], w[i + 1]>> : i \in 1..(Len(w) - 1)}

Inf == 1000000

pair_key(codes, pair) == IF in_codes(codes, pair) THEN rank(codes, pair) ELSE Inf

\* min(pairs, key = ...): ranks are distinct, so the minimum is unique as soon
\* as one pair of the word is in the table
min_pair(pairs, codes) ==
    CHOOSE p \in pairs : \A q \in pairs : pair_key(codes, p) <= pair_key(codes, q)

\* word.index(first, i), positions 1-based, 0 when absent
index(w, first, i) ==
    IF \E j \in i..Len(w) : w[j] = first
    THEN CHOOSE j \in i..Len(w) : w[j] = first /\ \A k \in i..(j - 1) : w[k] # first
    ELSE 0

RECURSIVE merge_scan(_, _, _, _, _)
merge_scan(w, first, second, i, new_word) ==
    IF i > Len(w) THEN new_word
    ELSE LET j == index(w, first, i)
         IN IF j = 0 THEN new_word \o SubSeq(w, i, Len(w))
            ELSE LET copied == new_word \o SubSeq(w, i, j - 1)
                 IN IF w[j] = first /\ j < Len(w) /\ w[j + 1] = second
                    THEN merge_scan(w, first, second, j + 2, Append(copied, first \o second))
                    ELSE merge_scan(w, first, second, j + 1, Append(copied, w[j]))

\* merge_pair, except that a pair of two equal members is never rewritten
merge_pair_mut(w, bigram) ==
    IF bigram[1] = bigram[2] THEN w ELSE merge_scan(w, bigram[1], bigram[2], 1, <<>>)

merge_pair(w, bigram) == merge_scan(w, bigram[1], bigram[2], 1, <<>>)

RECURSIVE merge_loop(_, _)
merge_loop(w, codes) ==
    LET bigram == min_pair(get_pairs(w), codes)
    IN IF ~in_codes(codes, bigram) THEN w
       ELSE LET new_word == merge_pair(w, bigram)
            IN IF Len(new_word) = 1 THEN new_word ELSE merge_loop(new_word, codes)

initial_symbols(orig, version) ==
    IF version = V01
    THEN [i \in 1..Len(orig) |-> <<orig[i]>>] \o <<EOW>>
    ELSE [i \in 1..(Len(orig) - 1) |-> <<orig[i]>>] \o <<<<orig[Len(orig)]>> \o EOW>>

\* strip_eow, except that a trailing end-of-word symbol of its own is kept
strip_eow_mut(w) ==
    IF w[Len(w)] = EOW THEN w
    ELSE IF EndsWith(w[Len(w)], EOW)
    THEN DropLast(w, 1) \o <<Replace(w[Len(w)], EOW, <<>>)>>
    ELSE w

\* don't print end-of-word symbols
strip_eow(w) ==
    IF w[Len(w)] = EOW THEN DropLast(w, 1)
    ELSE IF EndsWith(w[Len(w)], EOW)
    THEN DropLast(w, 1) \o <<Replace(w[Len(w)], EOW, <<>>)>>
    ELSE w

----------------------------------------------------------------------------
(* Vocabulary-constrained fallback split *)

RECURSIVE recursive_split(_, _, _, _, _)
recursive_split(segment, codes, vocab, separator, final) ==
    LET key == IF final THEN segment \o EOW ELSE segment
    IN IF ~in_reverse(codes, key) THEN <<segment>>
       ELSE LET pair == bpe_codes_reverse(codes, key)
                left == pair[1]
                right == IF final THEN DropLast(pair[2], 4) ELSE pair[2]
                lhs == IF (left \o separator) \in vocab THEN <<left>>
                       ELSE recursive_split(left, codes, vocab, separator, FALSE)
                rhs == IF (final /\ right \in vocab) \/ (~final /\ (right \o separator) \in vocab)
                       THEN <<right>>
                       ELSE recursive_split(right, codes, vocab, separator, final)
            IN lhs \o rhs

RECURSIVE split_nonfinal(_, _, _, _)
split_nonfinal(segs, codes, vocab, separator) ==
    IF segs = <<>> THEN <<>>
    ELSE (IF (Head(segs) \o separator) \in vocab THEN <<Head(segs)>>
          ELSE recursive_split(Head(segs), codes, vocab, separator, FALSE))
         \o split_nonfinal(Tail(segs), codes, vocab, separator)

check_vocab_and_split(orig, codes, vocab, separator) ==
    LET segment == orig[Len(orig)]
    IN split_nonfinal(DropLast(orig, 1), codes, vocab, separator)
       \o (IF segment \in vocab THEN <<segment>>
           ELSE recursive_split(segment, codes, vocab, separator, TRUE))

----------------------------------------------------------------------------
(* encode *)

in_glossaries(orig, glossaries) == \E i \in 1..Len(glossaries) : glossaries[i] = orig

\* "if vocab:" is the truth value of the vocabulary object
vocab_truthy(vocab) == vocab.supplied /\ vocab.words # {}

\* the tokens a caller gets by iterating over the returned string
chars_of(orig) == [i \in 1..Len(orig) |-> <<orig[i]>>]

Returned(res, cache) == [res |-> res, cache |-> cache, err |-> "none"]
Raised(e, cache) == [res |-> <<>>, cache |-> cache, err |-> e]

\* lines 245-249: the vocabulary split, the cache write and the return
encode_split_mut(orig, e, cache, merged) ==
    [res |-> IF vocab_truthy(e.vocab)
             THEN check_vocab_and_split(merged, e.codes, e.vocab.words, e.separator)
             ELSE merged,
     cache |-> (orig :> merged) @@ cache,
     err |-> "none"]

encode_store(orig, cache, w) == Returned(w, (orig :> w) @@ cache)

encode_split(orig, e, cache, merged) ==
    encode_store(orig, cache,
                 IF vocab_truthy(e.vocab)
                 THEN check_vocab_and_split(merged, e.codes, e.vocab.words, e.separator)
                 ELSE merged)

\* lines 205-243: from the initial symbols w0 to the stripped merged word
encode_symbols(orig, e, cache, w0) ==
    IF get_pairs(w0) = {} THEN Returned(chars_of(orig), cache)
    ELSE encode_split(orig, e, cache, strip_eow(merge_loop(w0, e.codes)))

\* encode(orig, bpe_codes, bpe_codes_reverse, vocab, separator, version, cache, glossaries)
encode(orig, e, cache) ==
    IF orig \in DOMAIN cache THEN Returned(cache[orig], cache)
    ELSE IF in_glossaries(orig, e.glossaries)
    THEN Returned(<<orig>>, (orig :> <<orig>>) @@ cache)
    ELSE IF e.version \notin {V01, V02} THEN Raised("NotImplementedError", cache)
    ELSE encode_symbols(orig, e, cache, initial_symbols(orig, e.version))

----------------------------------------------------------------------------
(* Glossary matcher *)

\* isolate_glossary(word, glossary), glossary non-empty
isolate_glossary(w, glossary) ==
    IF w = glossary \/ ~Contains(w, glossary) THEN <<w>>
    ELSE LET splits == Split(w, glossary)
             last == splits[Len(splits)]
             pieces == [i \in 1..(Len(splits) - 1) |->
                          (IF splits[i] # <<>> THEN <<Strip(splits[i])>> ELSE <<>>)
                          \o <<Strip(glossary)>>]
             segments == Concat(pieces)
         IN IF last # <<>> THEN segments \o <<Strip(last)>> ELSE segments

RECURSIVE isolate_each(_, _)
isolate_each(word_segments, gloss) ==
    IF word_segments = <<>> THEN <<>>
    ELSE isolate_glossary(Head(word_segments), gloss) \o isolate_each(Tail(word_segments), gloss)

\* BPE._isolate_glossaries
RECURSIVE isolate_from(_, _)
isolate_from(word_segments, glossaries) ==
    IF glossaries = <<>> THEN word_segments
    ELSE isolate_from(isolate_each(word_segments, Head(glossaries)), Tail(glossaries))

isolate_glossaries(w, glossaries) == isolate_from(<<w>>, glossaries)

----------------------------------------------------------------------------
(* Case feature, encoding direction *)

\* get_case_feature(surf), surf non-empty (surf[0] raises IndexError otherwise)
get_case_feature(surf) ==
    LET u_start == IsUpper(surf[1])
        length == Len(surf)
        u_end == IsUpper(surf[length])
        u_mid == \A i \in 2..(length - 1) : IsUpper(surf[i])
    IN IF length = 1 THEN (IF u_start THEN "S" ELSE "N")
       ELSE IF length = 2
       THEN (IF u_start /\ u_end THEN "A"
             ELSE IF u_start THEN "S"
             ELSE IF u_end THEN "E"
             ELSE "N")
       ELSE IF u_end
       THEN (IF u_start /\ u_mid THEN "A"
             ELSE IF u_start THEN "B"
             ELSE "E")
       ELSE IF u_start THEN "S"
       ELSE "N"

----------------------------------------------------------------------------
(* BPE.segment *)

\* sentence.split()
RECURSIVE split_ws(_, _)
split_ws(s, cur) ==
    IF s = <<>> THEN (IF cur = <<>> THEN <<>> ELSE <<cur>>)
    ELSE IF IsSpace(Head(s))
    THEN (IF cur = <<>> THEN <<>> ELSE <<cur>>) \o split_ws(Tail(s), <<>>)
    ELSE split_ws(Tail(s), Append(cur, Head(s)))

\* the encode calls of one word, in order, on the shared cache
RECURSIVE encode_segments(_, _, _, _)

\* r is what encode returned for the first of segs
encode_next(segs, e, new_word, r) ==
    IF r.err # "none" THEN r
    ELSE encode_segments(Tail(segs), e, r.cache, new_word \o r.res)

encode_segments(segs, e, cache, new_word) ==
    IF segs = <<>> THEN Returned(new_word, cache)
    ELSE encode_next(segs, e, new_word, encode(Head(segs), e, cache))

RECURSIVE token_pos(_, _)
token_pos(new_word, i) ==
    IF i = 1 THEN 0 ELSE token_pos(new_word, i - 1) + Len(new_word[i - 1])

\* the slice of the surface word under token i
surf_of(w, new_word, i) ==
    LET pos == token_pos(new_word, i)
    IN IF i < Len(new_word) THEN Slice(w, pos, pos + Len(new_word[i]))
       ELSE Slice(w, pos, Len(w))

format_word(w, new_word, e) ==
    [i \in 1..Len(new_word) |->
        new_word[i]
        \o (IF i < Len(new_word) THEN e.separator ELSE <<>>)
        \o (IF e.case_feature
            THEN <<FeatureSymbol, get_case_feature(surf_of(w, new_word, i))>>
            ELSE <<>>)]

norm_word(w, e) ==
    IF e.case_feature THEN Replace(Lower(w), <<FeatureSymbol>>, <<"|">>) ELSE w

RECURSIVE segment_words(_, _, _, _)

\* r is new_word, the tokens of the first word of ws, as the encode calls left it
segment_next(ws, e, output, r) ==
    IF r.err # "none" THEN r
    ELSE IF e.case_feature /\ \E i \in 1..Len(r.res) : surf_of(Head(ws), r.res, i) = <<>>
    THEN Raised("IndexError", r.cache)
    ELSE segment_words(Tail(ws), e, r.cache, output \o format_word(Head(ws), r.res, e))

segment_words(ws, e, cache, output) ==
    IF ws = <<>> THEN Returned(output, cache)
    ELSE segment_next(ws, e, output,
                      encode_segments(isolate_glossaries(norm_word(Head(ws), e), e.glossaries),
                                      e, cache, <<>>))

\* BPE.segment(sentence): res is the output list, the caller gets ' '.join(res)
segment(sentence, e, cache) == segment_words(split_ws(sentence, <<>>), e, cache, <<>>)

----------------------------------------------------------------------------
(* detokenize.py *)

\* lines 50-52: the case of the core text, the markers attached again
restore_case(without_sep, feat, start_sep, end_sep) ==
    start_sep
    \o (IF feat = <<"E">> THEN DropLast(without_sep, 1) \o <<UpperChar(without_sep[Len(without_sep)])>>
        ELSE IF feat = <<"B">> THEN <<UpperChar(without_sep[1])>> \o Tail(without_sep)
        ELSE without_sep)
    \o end_sep

\* lines 47-49
detach_start(without_sep, feat, end_sep) ==
    IF StartsWith(without_sep, <<Joiner>>)
    THEN restore_case(Tail(without_sep), feat, <<Joiner>>, end_sep)
    ELSE restore_case(without_sep, feat, <<>>, end_sep)

\* lines 44-46
detach_end(norm, feat) ==
    IF EndsWith(norm, <<Joiner>>)
    THEN detach_start(DropLast(norm, 1), feat, <<Joiner>>)
    ELSE detach_start(norm, feat, <<>>)

\* apply_case(norm, feat), norm non-empty
apply_case(norm, feat) ==
    IF feat = <<"N">> THEN norm
    ELSE IF feat = <<"A">> THEN Upper(norm)
    ELSE IF feat = <<"S">> THEN <<UpperChar(norm[1])>> \o Tail(norm)
    ELSE detach_end(norm, feat)

detok_word(w) ==
    LET feat_pos == Find(w, <<FeatureSymbol>>, 1)
    IN IF feat_pos = 0 THEN w
       ELSE apply_case(SubSeq(w, 1, feat_pos - 1), SubSeq(w, feat_pos + 1, Len(w)))

\* the body of the loop over the input lines
detokenize(line) ==
    LET ws == split_ws(line, <<>>)
        out_line == Join([i \in 1..Len(ws) |-> detok_word(ws[i])], <<" ">>)
    IN Replace(Replace(out_line, <<Joiner, " ">>, <<>>), <<" ", Joiner>>, <<>>)

----------------------------------------------------------------------------
(* Inputs *)

Letters == {"a", "b"}

WordsUpTo(alphabet, n) == UNION {[1..k -> alphabet] : k \in 1..n}

Words == WordsUpTo(Letters, MaxWordLen)

A == <<"a">>
B == <<"b">>
AB == <<"a", "b">>

\* rule-file lines the tables are made of
CandPairs == {<<A, B>>, <<A, EOW>>, <<A, B \o EOW>>}

TablesOver(pairs) == UNION {[1..k -> pairs] : k \in 0..MaxRules}

\* a rule learned from text in which the characters of the end-of-word marker occur
MarkerTable == << <<<<"a", "<">>, <<"/", "w", ">">>>> >>

Tables == TablesOver(CandPairs) \cup {MarkerTable}

V03 == <<0, 3>>

Vocabs == {NoVocab,
           [supplied |-> TRUE, words |-> {}],
           [supplied |-> TRUE, words |-> {B}],
           [supplied |-> TRUE, words |-> {A \o AtAt, B}]}

Call(op, arg, res, err, hit, src) ==
    [op |-> op, arg |-> arg, res |-> res, err |-> err, hit |-> hit, src |-> src]

Idle == Call("none", <<>>, <<>>, "none", FALSE, <<>>)

NoLoop == [pc |-> "off", codes |-> <<>>, n0 |-> 0, iters |-> 0]

NoResp == [model |-> "", seg |-> <<>>, kind |-> "none", res |-> <<>>, used |-> 0]

----------------------------------------------------------------------------
(* The engine under segment_word calls *)

Init ==
    /\ \/ \E v \in {V01, V02}, codes \in Tables, vocab \in Vocabs, gl \in {<<>>, <<AB>>} :
             bpe = BPE(v, codes, AtAt, vocab, gl, FALSE)
       \/ \E codes \in {<<>>, << <<A, B>> >>}, gl \in {<<>>, <<AB>>} :
             bpe = BPE(V03, codes, AtAt, NoVocab, gl, FALSE)
    /\ ret = Idle
    /\ ncalls = 0
    /\ word = <<>>
    /\ loop = NoLoop
    /\ models = <<>>
    /\ resp = NoResp

\* the engine and the call record once the call has returned or raised r
Done(op, arg, hit, r) ==
    /\ bpe' = [bpe EXCEPT !.cache = r.cache]
    /\ ret' = Call(op, arg, r.res, r.err, hit, arg)

SegmentWord(orig) ==
    /\ ncalls < MaxCalls
    /\ Done("segment_word", orig, orig \in DOMAIN bpe.cache, encode(orig, bpe, bpe.cache))
    /\ ncalls' = ncalls + 1
    /\ UNCHANGED <<word, loop, models, resp>>

Next == \E orig \in Words : SegmentWord(orig)

Spec == Init /\ [][Next]_vars

----------------------------------------------------------------------------
(* A fresh engine segmenting one line, and the detokenizer run on its output *)

SurfLetters == {"a", "A", "b"}

Lower5 == <<"l", "o", "w", "e", "r">>

SurfWords == WordsUpTo(SurfLetters, MaxSurfLen) \cup {Lower5}

Lines == {<<>>} \cup SurfWords \cup {AB \o <<" ">> \o AB, <<"b", " ", "A", "b">>}

LowerTable == << <<<<"l">>, <<"o">>>>, <<<<"l", "o">>, <<"w">>>> >>

SegTables == {<<>>,
              << <<A, B>>, <<AB, A>> >>,
              << <<A, B>>, <<AB, EOW>> >>,
              << <<A, B \o EOW>> >>,
              LowerTable}

GlossaryLists == {<<>>, <<AB>>, <<AB, B>>, <<B, AB>>}

InitSeg ==
    /\ \E v \in {V01, V02}, codes \in SegTables, sep \in {AtAt, <<Joiner>>},
          vocab \in {NoVocab, [supplied |-> TRUE, words |-> {B}]},
          gl \in GlossaryLists, cf \in BOOLEAN :
          bpe = BPE(v, codes, sep, vocab, gl, cf)
    /\ ret = Idle
    /\ ncalls = 0
    /\ word = <<>>
    /\ loop = NoLoop
    /\ models = <<>>
    /\ resp = NoResp

Segment(sentence) ==
    /\ ret.op = "none"
    /\ Done("segment", sentence, FALSE, segment(sentence, bpe, bpe.cache))
    /\ ncalls' = ncalls + 1
    /\ UNCHANGED <<word, loop, models, resp>>

Detokenize ==
    /\ ret.op = "segment"
    /\ ret.err = "none"
    /\ ret' = Call("detokenize", Join(ret.res, <<" ">>), detokenize(Join(ret.res, <<" ">>)),
                   "none", FALSE, ret.src)
    /\ UNCHANGED <<bpe, ncalls, word, loop, models, resp>>

NextSeg ==
    \/ \E sentence \in Lines : Segment(sentence)
    \/ Detokenize

SpecSeg == InitSeg /\ [][NextSeg]_vars

----------------------------------------------------------------------------
(* The merge loop of encode, one iteration per step *)

InitLoop ==
    /\ \E orig \in WordsUpTo(Letters, MaxLoopWordLen), v \in {V01, V02},
          codes \in TablesOver(CandPairs \cup {<<A, A>>}) :
          /\ word = initial_symbols(orig, v)
          /\ loop = [pc |-> IF get_pairs(initial_symbols(orig, v)) = {} THEN "return" ELSE "while",
                     codes |-> codes,
                     n0 |-> Len(initial_symbols(orig, v)),
                     iters |-> 0]
    /\ bpe = BPE(V01, <<>>, AtAt, NoVocab, <<>>, FALSE)
    /\ ret = Idle
    /\ ncalls = 0
    /\ models = <<>>
    /\ resp = NoResp

bigram == min_pair(get_pairs(word), loop.codes)

\* the selected pair is not in the table: break
LoopBreak ==
    /\ loop.pc = "while"
    /\ ~in_codes(loop.codes, bigram)
    /\ loop' = [loop EXCEPT !.pc = "done", !.iters = @ + 1]
    /\ UNCHANGED <<bpe, ret, ncalls, word, models, resp>>

\* the selected pair is in the table: rewrite the word
LoopMerge ==
    /\ loop.pc = "while"
    /\ in_codes(loop.codes, bigram)
    /\ word' = merge_pair(word, bigram)
    /\ loop' = [loop EXCEPT !.pc = IF Len(word') = 1 THEN "done" ELSE "while",
                            !.iters = @ + 1]
    /\ UNCHANGED <<bpe, ret, ncalls, models, resp>>

NextLoop == LoopBreak \/ LoopMerge

SpecLoop == InitLoop /\ [][NextLoop]_vars

----------------------------------------------------------------------------
(* bpe_srv: preprocess on the loaded models *)

ModelNames == {"m1", "m2"}

SrvTables == {<<>>, << <<A, B>> >>}

\* load_models: one engine per configured model, no vocabulary, no glossaries
LoadedModels == {[name |-> n, bpe |-> BPE(V01, t, AtAt, NoVocab, <<>>, FALSE)] :
                    n \in ModelNames, t \in SrvTables}

InitSrv ==
    /\ models \in UNION {[1..k -> LoadedModels] : k \in 0..MaxModels}
    /\ resp = NoResp
    /\ bpe = BPE(V01, <<>>, AtAt, NoVocab, <<>>, FALSE)
    /\ ret = Idle
    /\ ncalls = 0
    /\ word = <<>>
    /\ loop = NoLoop

NoSuchModel == <<"n", "o", " ", "s", "u", "c", "h", " ", "m", "o", "d", "e", "l">>

\* lines 19-20: r is what segment did on the engine of models[m]
respond(model_id, seg, m, r) ==
    /\ models' = [models EXCEPT ![m].bpe.cache = r.cache]
    /\ resp' = [model |-> model_id, seg |-> seg,
                kind |-> IF r.err = "none" THEN "res" ELSE "raised",
                res |-> Strip(Join(r.res, <<" ">>)),
                used |-> m]

\* after the for loop, m is the last element of models
last_m == Len(models)

\* preprocess(): body is the request {model, seg}
preprocess(model_id, seg) ==
    /\ ncalls < MaxCalls
    /\ ncalls' = ncalls + 1
    /\ IF ~\E i \in 1..Len(models) : models[i].name = model_id
       THEN /\ resp' = [model |-> model_id, seg |-> seg, kind |-> "err",
                        res |-> NoSuchModel, used |-> 0]
            /\ UNCHANGED models
       ELSE respond(model_id, seg, last_m,
                    segment(seg, models[last_m].bpe, models[last_m].bpe.cache))
    /\ UNCHANGED <<bpe, ret, word, loop>>

SrvSegs == {<<>>} \cup WordsUpTo(Letters, 2)

NextSrv == \E model_id \in ModelNames \cup {"zz"}, seg \in SrvSegs : preprocess(model_id, seg)

SpecSrv == InitSrv /\ [][NextSrv]_vars

----------------------------------------------------------------------------
(* Properties *)

Completed(op) == ret.op = op /\ ret.err = "none"

\* C1: the tokens segment_word returns for a word, concatenated, are the word
RoundTrip ==
    Completed("segment_word") => Concat(ret.res) = ret.arg

\* the text of output token i of a one-word line, without feature tag and separator
token_text(i) ==
    LET t == ret.res[i]
        u == IF bpe.case_feature THEN DropLast(t, 2) ELSE t
    IN IF i < Len(ret.res) THEN DropLast(u, Len(bpe.separator)) ELSE u

\* C2: a glossary string that occurs in the word is one of the output tokens
\* of BPE.segment, unaltered
GlossaryIsolation ==
    (Completed("segment") /\ ret.arg \in SurfWords) =>
        \A k \in 1..Len(bpe.glossaries) :
            Contains(ret.arg, bpe.glossaries[k]) =>
                \E i \in 1..Len(ret.res) : token_text(i) = bpe.glossaries[k]

\* C3: with a vocabulary supplied, a non-final token is in the vocabulary with
\* the separator or has no reverse-table entry, and the final token is in the
\* vocabulary or has no reverse-table entry for its word-final form
VocabConstraint ==
    (Completed("segment_word") /\ bpe.vocab.supplied) =>
        \A i \in 1..Len(ret.res) :
            IF i < Len(ret.res)
            THEN \/ (ret.res[i] \o bpe.separator) \in bpe.vocab.words
                 \/ ~in_reverse(bpe.codes, ret.res[i])
            ELSE \/ ret.res[i] \in bpe.vocab.words
                 \/ ~in_reverse(bpe.codes, ret.res[i] \o EOW)

\* C4: a word of ASCII letters, segmented with the case feature and the
\* marker the detokenizer knows, then detokenized, is the word again
CaseRoundTrip ==
    (/\ ret.op = "detokenize"
     /\ ret.src \in SurfWords
     /\ bpe.case_feature
     /\ bpe.separator = <<Joiner>>
     /\ ~bpe.vocab.supplied
     /\ bpe.glossaries = <<>>) => ret.res = ret.src

Scenario1 ==
    /\ bpe.codes = LowerTable
    /\ ~bpe.vocab.supplied
    /\ bpe.glossaries = <<>>
    /\ ~bpe.case_feature
    /\ bpe.separator = AtAt
    /\ ret.op = "segment"
    /\ ret.arg = Lower5

\* C5, as stated: scenario 1 outputs low@@ er
Scenario1Claimed ==
    Scenario1 => /\ ret.err = "none"
                 /\ ret.res = << <<"l", "o", "w">> \o AtAt, <<"e", "r">> >>

\* C5, amended: with the rules (l,o) and (lo,w) only, no rule merges e and r,
\* and segmenting "lower" outputs low@@ e@@ r
Scenario1Output ==
    Scenario1 => /\ ret.err = "none"
                 /\ ret.res = << <<"l", "o", "w">> \o AtAt, <<"e">> \o AtAt, <<"r">> >>

Scenario1Reached == Scenario1 /\ Len(ret.res) = 3

\* a cache entry is what a fresh engine returns for the word, and so is the
\* result of every completed call
CacheFresh ==
    /\ \A w \in DOMAIN bpe.cache : bpe.cache[w] = encode(w, bpe, EmptyCache).res
    /\ Completed("segment_word") => ret.res = encode(ret.arg, bpe, EmptyCache).res

\* a call keeps every cache entry, and repeats the result of the call before
\* when it is for the same word
CacheStep ==
    /\ \A w \in DOMAIN bpe.cache :
          w \in DOMAIN bpe'.cache /\ bpe'.cache[w] = bpe.cache[w]
    /\ (Completed("segment_word") /\ ret'.arg = ret.arg /\ ret'.err = "none")
          => ret'.res = ret.res

\* C6: over any sequence of segment_word calls, each call returns what every
\* earlier call for the word and a fresh engine return, and entries of the
\* cache are never changed or removed
CacheCoherence == []CacheFresh /\ [][CacheStep]_vars

\* a second call for a word whose first call went through the merge loop
\* and the vocabulary split
CacheHit ==
    /\ Completed("segment_word")
    /\ ret.hit
    /\ Len(ret.res) > 1
    /\ vocab_truthy(bpe.vocab)

\* C7: no call completes on an engine whose version is neither 0.1 nor 0.2
UnsupportedVersionFatal ==
    (bpe.version \notin {V01, V02} /\ ret.op # "none") => ret.err # "none"

\* C8: an iteration of the merge loop whose selected pair is in the table
\* shortens the word, and the loop is left after at most (initial symbol
\* count - 1) iterations
LoopTerminates ==
    /\ [](loop.pc # "off" => /\ loop.iters <= loop.n0 - 1
                             /\ loop.pc = "while" => loop.iters < loop.n0 - 1)
    /\ [][(loop.pc = "while" /\ in_codes(loop.codes, bigram) /\ loop'.iters = loop.iters + 1)
             => Len(word') < Len(word)]_vars

\* the pair (a,a) was merged on a a a
EqualMembersMerged ==
    /\ loop.iters = 1
    /\ loop.codes = << <<A, A>> >>
    /\ word = << <<"a", "a">>, A, EOW >>

\* C9: a request for a loaded model is answered by the engine of that model,
\* a request for any other identifier by the error value, no engine used
ServingDispatch ==
    resp.kind # "none" =>
        IF \E i \in 1..Len(models) : models[i].name = resp.model
        THEN resp.kind = "res" /\ models[resp.used].name = resp.model
        ELSE resp.kind = "err" /\ resp.used = 0

\* C10: no token emitted for a word is empty
NoEmptyToken ==
    Completed("segment_word") => \A i \in 1..Len(ret.res) : ret.res[i] # <<>>
====
